---- MODULE Spec2Model ----
(***************************************************************************)
(* A model of oeaudio: the stimulus sequencer (core.StimulusQueue), the    *)
(* sample sources (core.Stimulus), the controller client                   *)
(* (core.OpenEphysControl) and the playback pipeline of script.main: the   *)
(* main thread that feeds sample_queue and the stream callback _process    *)
(* that drains it.                                                         *)
(*                                                                         *)
(* The controller is connected (--open-ephys-address is given), so every   *)
(* request goes over the REQ socket.  The reply to a request is the        *)
(* expected string, another string, or none before RCVTIMEO expires.       *)
(* KeyboardInterrupt is followed where the claims place it: while the main *)
(* thread is inside the with block.  Closing the stream returns once no    *)
(* callback is running, and no callback runs after it.                     *)
(*                                                                         *)
(* Audio is counted in frames.  A block read from a stimulus is the number *)
(* of frames it holds (0..BlockSize); a block is "short" when it holds     *)
(* fewer than BlockSize frames, which is the test                          *)
(* len(samples) < buffer_size of script.py.                                *)
(***************************************************************************)
EXTENDS Integers, Sequences, FiniteSets, TLC

\* ------------------------------------------------------------------------
\* Bounds of the model
MaxFiles == 2        \* number of stimulus files on the command line
MaxRepeats == 2      \* --repeats
MaxFrames == 3       \* frames in one stimulus file
MaxBufferSize == 2   \* --buffer-size
MaxGapBlocks == 1    \* silence blocks that make up --gap
MaxNext == 8         \* calls of next() followed on a sequencer of its own
MaxPlayed == 2       \* stimuli played in one run of main
MaxRate == 2         \* sample rate of a stimulus file read on its own

\* --block-size, in frames
BlockSize == 2

VARIABLES
    args,        \* the parsed command line: stimfiles, repeats, shuffle, loop, buffer_size, gap_frames
    frames,      \* frames[f]: the length of stimulus file f
    stimiter,    \* TRUE once iter(stim_queue) has been called
    stimlist,    \* StimulusQueue.stimlist
    index,       \* StimulusQueue.index
    tell,        \* tell[f]: the read position of Stimulus f (fp.tell())
    left,        \* history: the read position next() found the stimulus it returned last at
    returned,    \* history: the stimuli returned by next(stimiter), in order
    stopiter,    \* history: TRUE once next(stimiter) has raised StopIteration
    pc,          \* the position of the main thread in script.main
    stim,        \* main's variable stim: the stimulus being played
    count,       \* the loop counter of the for loop main is in
    failure,     \* the except clause main's try statement has taken
    sample_queue,\* the contents of sample_queue, head first
    pushed,      \* history: the items put into sample_queue, in order
    popped,      \* history: the items _process has got from sample_queue, in order
    stream,      \* the state of the RawOutputStream
    evt,         \* the threading.Event set by the stream's finished_callback
    cbpc,        \* the position of the stream thread inside _process
    outdata,     \* what the last call of _process left in the output buffer
    request,     \* request[c]: the request context c has sent and not yet read the reply of
    stale,       \* TRUE once a reply has timed out: the REQ socket still awaits it
    sent,        \* history: the requests sent on the socket, <<context, request>>
    validated,   \* history: the lifecycle requests whose reply matched
    click,       \* args.click, the --click argument, in thousandths; NoClick when absent
    samplerate,  \* Stimulus.samplerate of the (mono) stimulus files
    sync         \* the sync channel of the block Stimulus.read returned last

seqvars == <<stimiter, stimlist, index, tell, left, returned, stopiter>>
mainvars == <<pc, stim, count, failure>>
queuevars == <<sample_queue, pushed, popped>>
streamvars == <<stream, evt, cbpc, outdata>>
ctlvars == <<request, stale, sent, validated>>
clickvars == <<click, samplerate, sync>>
vars == <<args, frames, clickvars, seqvars, mainvars, queuevars, streamvars, ctlvars>>

\* ------------------------------------------------------------------------
\* Helpers on sequences
Range(s) == {s[i] : i \in DOMAIN s}

Occurrences(s, x) == Cardinality({i \in DOMAIN s : s[i] = x})

IsPrefix(s, t) == Len(s) <= Len(t) /\ \A i \in 1..Len(s) : s[i] = t[i]

\* a draw with replacement, as random.choices would make
Resamples(s) == [1..Len(s) -> Range(s)]

\* the orders random.shuffle can leave a list in
Shuffles(s) ==
    {t \in [1..Len(s) -> Range(s)] : \A x \in Range(s) : Occurrences(t, x) = Occurrences(s, x)}

\* ------------------------------------------------------------------------
\* core.repeat_and_shuffle: every item repeated `rep` times in place, then
\* shuffled as a whole when a seed is given.  The result of random.shuffle
\* under an arbitrary seed is any permutation.
Cycled(seq, rep) == [i \in 1..(Len(seq) * rep) |-> seq[((i - 1) % Len(seq)) + 1]]

Exploded(seq, rep) == [i \in 1..(Len(seq) * rep) |-> seq[((i - 1) \div rep) + 1]]

repeat_and_shuffle(seq, rep, shuf) ==
    IF shuf THEN Shuffles(Exploded(seq, rep)) ELSE {Exploded(seq, rep)}

\* StimulusQueue.stimuli: one Stimulus per file, in command-line order
Stimuli == [f \in 1..args.stimfiles |-> f]

\* StimulusQueue.__iter__
IterOutcomes == repeat_and_shuffle(Stimuli, args.repeats, args.shuffle)

\* StimulusQueue.__next__: the possible outcomes of one call. `stop` is
\* StopIteration; otherwise s is the stimulus returned and list, idx the
\* new stimlist and index.  The list is reshuffled whenever a looping queue
\* runs past its end.
NoStimulus == 0

NextOutcomes(list, idx, loop) ==
    IF idx >= Len(list)
    THEN IF ~loop
         THEN {[stop |-> TRUE, list |-> list, idx |-> idx, s |-> NoStimulus]}
         ELSE {[stop |-> FALSE, list |-> p, idx |-> 1, s |-> p[1]] : p \in Shuffles(list)}
    ELSE {[stop |-> FALSE, list |-> list, idx |-> idx + 1, s |-> list[idx + 1]]}

\* a seek that leaves the read position where it is
NoSeek(f, p) == tell

\* Stimulus.seek
Seek(f, p) == [tell EXCEPT ![f] = p]

\* Stimulus.read: the number of frames one read of block_size frames returns
ReadFrames(f) ==
    IF frames[f] - tell[f] >= BlockSize THEN BlockSize ELSE frames[f] - tell[f]

\* ------------------------------------------------------------------------
\* The sync channel Stimulus.read adds to a mono file.  The --click argument
\* is a float; the model holds it in thousandths (click = 1000 is the
\* argument 1.0), so that the arithmetic stays in the integers.

\* args.click is None
NoClick == -1

\* the arguments tried: 0.2, 1.0, 1250.0 and 2000.0
Clicks == {NoClick, 200, 1000, 1250000, 2000000}

\* int(self.click * self.samplerate / 1000.): int() truncates
click_frames == (click * samplerate) \div 1000000

\* a sync channel of len samples, the first ones of them 1.0 and the rest 0.0
Sync(len, ones) == [len |-> len, ones |-> IF ones < len THEN ones ELSE len]

\* read returns the file's buffer alone
NoSync == Sync(0, 0)

\* sync = np.zeros_like(data); if pos == 0: sync[:click_frames] = 1.0
ReadSync(f) == Sync(ReadFrames(f), IF tell[f] = 0 THEN click_frames ELSE 0)

\* ------------------------------------------------------------------------
\* The items of sample_queue: a block of samples (bytes), a message (str)
\* or None.  A block is known by the stimulus it was read from and the
\* frames it holds; the silence of a gap is a full block of no stimulus.
Item(kind, verb, f, n) == [kind |-> kind, verb |-> verb, stim |-> f, frames |-> n]

Block(f, n) == Item("block", "", f, n)

Silence == Item("block", "", NoStimulus, BlockSize)

\* a message that says start whatever it is asked to say
StartOnly(verb, f) == Item("message", "start", f, 0)

Message(verb, f) == Item("message", verb, f, 0)

End == Item("None", "", NoStimulus, 0)

\* a queue with room for the audio blocks of the pre-fill alone
UnderSize == args.buffer_size

\* queue.Queue(maxsize=args.buffer_size + 1)
OverSize == args.buffer_size + 2

MaxSize == args.buffer_size + 1

Full == Len(sample_queue) >= MaxSize

\* a range that takes its end point in
GapBlocksInclusive == (args.gap_frames \div BlockSize) + 1

\* the iterations of range(0, gap_frames, args.block_size)
GapBlocks == (args.gap_frames + BlockSize - 1) \div BlockSize

\* ------------------------------------------------------------------------
\* core.OpenEphysControl over a connected REQ socket.  A request is the
\* string sent; a message carries its text.
Request(cmd, verb, f) == [cmd |-> cmd, verb |-> verb, stim |-> f]

NoRequest == Request("none", "", NoStimulus)

Command(cmd) == Request(cmd, "", NoStimulus)

Text(verb, f) == Request("message", verb, f)

None == "None"

Timeout == "zmq.Again"

\* the `expected` argument _send is called with
Expected(req) ==
    CASE req.cmd = "StartAcquisition" -> "StartedAcquisition"
      [] req.cmd = "StopAcquisition" -> "StoppedAcquisition"
      [] req.cmd = "StartRecord" -> "StartedRecording"
      [] req.cmd = "StopRecord" -> "StoppedRecording"
      [] OTHER -> None

\* what recv_string can do after req was sent: return the reply the
\* protocol gives, return something else, or time out (RCVTIMEO)
Replies(req) ==
    {IF Expected(req) = None THEN "reply" ELSE Expected(req), "unexpected", Timeout}

\* a _send that never checks the reply
NeverRaises(expected, ret) == FALSE

\* _send: the reply is checked against `expected` when one is given
Raises(expected, ret) == expected # None /\ ret # expected

\* socket.send_string by context c.  A REQ socket that still awaits a reply
\* (the last recv timed out) refuses to send.
SendString(c, req) ==
    /\ request[c] = NoRequest
    /\ ~stale
    /\ request' = [request EXCEPT ![c] = req]
    /\ sent' = Append(sent, <<c, req>>)
    /\ UNCHANGED <<stale, validated>>

SendRefused(c) ==
    /\ request[c] = NoRequest
    /\ stale
    /\ UNCHANGED ctlvars

\* socket.recv_string by context c returning ret
RecvString(c, ret) ==
    /\ request[c] # NoRequest
    /\ ret \in Replies(request[c])
    /\ request' = [request EXCEPT ![c] = NoRequest]
    /\ stale' = (stale \/ ret = Timeout)
    /\ validated' = IF ret = Expected(request[c])
                     THEN validated \cup {request[c].cmd}
                     ELSE validated
    /\ UNCHANGED sent

\* one call of controller._send(req) by the main thread at position p: it
\* goes on at ok when _send returns and at err when _send raises
MainSend(p, req, ok, err) ==
    /\ pc = p
    /\ \/ SendString("main", req) /\ UNCHANGED pc
       \/ SendRefused("main") /\ pc' = err
       \/ \E ret \in Replies(req) :
             /\ RecvString("main", ret)
             /\ pc' = IF ret = Timeout \/ Raises(Expected(req), ret) THEN err ELSE ok

\* ------------------------------------------------------------------------
\* The initial state: the command line is parsed, nothing has run.
Init ==
    /\ args \in [stimfiles : 1..MaxFiles, repeats : 1..MaxRepeats,
                 shuffle : BOOLEAN, loop : BOOLEAN,
                 buffer_size : 1..MaxBufferSize,
                 gap_frames : {b * BlockSize : b \in 0..MaxGapBlocks}]
    /\ frames \in [1..args.stimfiles -> 1..MaxFrames]
    /\ stimiter = FALSE
    /\ stimlist = <<>>
    /\ index = 0
    /\ tell = [f \in 1..args.stimfiles |-> 0]
    /\ left = 0
    /\ returned = <<>>
    /\ stopiter = FALSE
    /\ pc = "start_acquisition"
    /\ stim = NoStimulus
    /\ count = 0
    /\ failure = "none"
    /\ sample_queue = <<>>
    /\ pushed = <<>>
    /\ popped = <<>>
    /\ stream = "none"
    /\ evt = FALSE
    /\ cbpc = "idle"
    /\ outdata = "unwritten"
    /\ request = [c \in {"main", "callback"} |-> NoRequest]
    /\ stale = FALSE
    /\ sent = <<>>
    /\ validated = {}
    /\ click \in Clicks
    /\ samplerate \in 1..MaxRate
    /\ sync = NoSync

\* ------------------------------------------------------------------------
\* script.main, the main thread.  Every action is one statement (or one
\* uninterruptible run of statements) of main; pc names the statement the
\* thread is at.

\* sample_queue.put_nowait(item) and a put(item) that finds room
Put(item) ==
    /\ ~Full
    /\ sample_queue' = Append(sample_queue, item)
    /\ pushed' = Append(pushed, item)
    /\ UNCHANGED popped

\* stim.read(args.block_size): the block returned and the new read position
ReadBlock == Block(stim, ReadFrames(stim))

AfterRead == [tell EXCEPT ![stim] = @ + ReadFrames(stim)]

\* len(samples) < buffer_size
Short(item) == item.frames < BlockSize

\* controller.start_acquisition(), then time.sleep(args.warmup)
StartAcquisition ==
    /\ MainSend("start_acquisition", Command("StartAcquisition"), "prebuffer", "crashed")
    /\ UNCHANGED <<args, frames, clickvars, seqvars, stim, count, failure, queuevars, streamvars>>

\* stimiter = iter(stim_queue); stim = next(stimiter); put_nowait("start ...")
Prebuffer ==
    /\ pc = "prebuffer"
    /\ \E l \in IterOutcomes : \E o \in NextOutcomes(l, 0, args.loop) :
          /\ stimiter' = TRUE
          /\ stimlist' = o.list
          /\ index' = o.idx
          /\ stim' = o.s
          /\ left' = tell[o.s]
          /\ tell' = Seek(o.s, 0)
          /\ returned' = Append(returned, o.s)
          /\ Put(Message("start", o.s))
    /\ count' = 0
    /\ pc' = "prebuffer_block"
    /\ UNCHANGED <<args, frames, clickvars, stopiter, failure, streamvars, ctlvars>>

\* one round of the loop `for _ in range(args.buffer_size)`: read a block,
\* put_nowait it (queue.Full is not caught here), leave the loop on a short block
PrebufferBlock ==
    /\ pc = "prebuffer_block"
    /\ IF count >= args.buffer_size
       THEN /\ pc' = "start_recording"
            /\ UNCHANGED <<tell, count, queuevars>>
       ELSE /\ tell' = AfterRead
            /\ IF Full
               THEN /\ pc' = "crashed"
                    /\ UNCHANGED <<count, queuevars>>
               ELSE /\ Put(ReadBlock)
                    /\ count' = count + 1
                    /\ pc' = IF Short(ReadBlock) THEN "start_recording" ELSE "prebuffer_block"
    /\ UNCHANGED <<args, frames, clickvars, stimiter, stimlist, index, left, returned, stopiter,
                   stim, failure, streamvars, ctlvars>>

\* controller.start_recording(...): StartRecord, then GetRecordingPath
StartRecording ==
    /\ \/ MainSend("start_recording", Command("StartRecord"), "get_recording_path", "crashed")
       \/ MainSend("get_recording_path", Command("GetRecordingPath"), "metadata", "crashed")
    /\ UNCHANGED <<args, frames, clickvars, seqvars, stim, count, failure, queuevars, streamvars>>

\* controller.message("metadata: ..."), then time.sleep(args.gap)
MetadataMessage ==
    /\ MainSend("metadata", Text("metadata", NoStimulus), "open_stream", "crashed")
    /\ UNCHANGED <<args, frames, clickvars, seqvars, stim, count, failure, queuevars, streamvars>>

\* stream = sd.RawOutputStream(...): the device opens, or the constructor
\* raises outside the try statement
OpenStream ==
    /\ pc = "open_stream"
    /\ \/ stream' = "open" /\ pc' = "enter"
       \/ pc' = "crashed" /\ UNCHANGED stream
    /\ UNCHANGED <<args, frames, clickvars, seqvars, stim, count, failure, queuevars,
                   evt, cbpc, outdata, ctlvars>>

\* `with stream:` starts the stream; a start that raises is caught by
\* `except Exception`
EnterStream ==
    /\ pc = "enter"
    /\ \/ stream' = "active" /\ pc' = "loop" /\ UNCHANGED failure
       \/ failure' = "exception" /\ pc' = "handler" /\ UNCHANGED stream
    /\ UNCHANGED <<args, frames, clickvars, seqvars, stim, count, queuevars,
                   evt, cbpc, outdata, ctlvars>>

\* the positions of main inside the with block
InStream == {"loop", "put_stop", "gap", "next", "put_start", "put_end", "wait"}

\* samples = stim.read(...); sample_queue.put(samples, timeout=timeout)
LoopBlock ==
    /\ pc = "loop"
    /\ tell' = AfterRead
    /\ Put(ReadBlock)
    /\ pc' = IF Short(ReadBlock) THEN "put_stop" ELSE "loop"
    /\ UNCHANGED <<args, frames, clickvars, stimiter, stimlist, index, left, returned, stopiter,
                   stim, count, failure, streamvars, ctlvars>>

\* sample_queue.put("stop ...", timeout=timeout)
PutStop ==
    /\ pc = "put_stop"
    /\ Put(Message("stop", stim))
    /\ count' = 0
    /\ pc' = IF GapBlocks > 0 THEN "gap" ELSE "next"
    /\ UNCHANGED <<args, frames, clickvars, seqvars, stim, failure, streamvars, ctlvars>>

\* one round of the gap loop: a block of zeros, put with the timeout
PutGap ==
    /\ pc = "gap"
    /\ Put(Silence)
    /\ count' = count + 1
    /\ pc' = IF count + 1 < GapBlocks THEN "gap" ELSE "next"
    /\ UNCHANGED <<args, frames, clickvars, seqvars, stim, failure, streamvars, ctlvars>>

\* the puts that are given timeout=timeout
TimedPuts == {"loop", "put_stop", "gap"}

\* a put with a timeout that finds the queue full until the timeout expires
\* raises queue.Full (at pc = "loop" the block has been read by then)
PutTimeout ==
    /\ pc \in TimedPuts
    /\ Full
    /\ tell' = IF pc = "loop" THEN AfterRead ELSE tell
    /\ failure' = "full"
    /\ pc' = "exit_stream"
    /\ UNCHANGED <<args, frames, clickvars, stimiter, stimlist, index, left, returned, stopiter,
                   stim, count, queuevars, streamvars, ctlvars>>

\* stim = next(stimiter), leaving the loop on StopIteration
NextStimulus ==
    /\ pc = "next"
    /\ args.loop => Len(returned) < MaxPlayed
    /\ \E o \in NextOutcomes(stimlist, index, args.loop) :
          IF o.stop
          THEN /\ stopiter' = TRUE
               /\ pc' = "put_end"
               /\ UNCHANGED <<stimlist, index, tell, left, returned, stim>>
          ELSE /\ stimlist' = o.list
               /\ index' = o.idx
               /\ stim' = o.s
               /\ left' = tell[o.s]
               /\ tell' = Seek(o.s, 0)
               /\ returned' = Append(returned, o.s)
               /\ pc' = "put_start"
               /\ UNCHANGED stopiter
    /\ UNCHANGED <<args, frames, clickvars, stimiter, count, failure, queuevars, streamvars, ctlvars>>

\* sample_queue.put("start ..."): no timeout, blocks while the queue is full
PutStart ==
    /\ pc = "put_start"
    /\ Put(Message("start", stim))
    /\ pc' = "loop"
    /\ UNCHANGED <<args, frames, clickvars, seqvars, stim, count, failure, streamvars, ctlvars>>

\* sample_queue.put(None): no timeout, blocks while the queue is full
PutEnd ==
    /\ pc = "put_end"
    /\ Put(End)
    /\ pc' = "wait"
    /\ UNCHANGED <<args, frames, clickvars, seqvars, stim, count, failure, streamvars, ctlvars>>

\* evt.wait()
WaitFinished ==
    /\ pc = "wait"
    /\ evt
    /\ pc' = "exit_stream"
    /\ UNCHANGED <<args, frames, clickvars, seqvars, stim, count, failure, queuevars,
                   streamvars, ctlvars>>

\* a KeyboardInterrupt caught inside the with block, the stream still running
InterruptInsideStream ==
    /\ pc \in InStream
    /\ failure' = "interrupt"
    /\ pc' = "handler"
    /\ UNCHANGED <<args, frames, clickvars, seqvars, stim, count, queuevars, streamvars, ctlvars>>

\* KeyboardInterrupt raised in the main thread inside the with block
Interrupt ==
    /\ pc \in InStream
    /\ failure' = "interrupt"
    /\ pc' = "exit_stream"
    /\ UNCHANGED <<args, frames, clickvars, seqvars, stim, count, queuevars, streamvars, ctlvars>>

\* stim.read raises inside the loop
ReadError ==
    /\ pc = "loop"
    /\ failure' = "exception"
    /\ pc' = "exit_stream"
    /\ UNCHANGED <<args, frames, clickvars, seqvars, stim, count, queuevars, streamvars, ctlvars>>

\* a close that does not wait for the callback that is running
ExitStreamNoWait ==
    /\ pc = "exit_stream"
    /\ stream' = "closed"
    /\ evt' = TRUE
    /\ pc' = IF failure = "none" THEN "stop_recording" ELSE "handler"
    /\ UNCHANGED <<args, frames, clickvars, seqvars, stim, count, failure, queuevars,
                   cbpc, outdata, ctlvars>>

\* the with block is left, normally or by an exception: stream.__exit__
\* closes the stream, which returns once no callback is running; the
\* except clause, if any, runs after it
ExitStream ==
    /\ pc = "exit_stream"
    /\ cbpc = "idle"
    /\ stream' = "closed"
    /\ evt' = TRUE
    /\ pc' = IF failure = "none" THEN "stop_recording" ELSE "handler"
    /\ UNCHANGED <<args, frames, clickvars, seqvars, stim, count, failure, queuevars,
                   cbpc, outdata, ctlvars>>

\* the text the except clauses send
FailureText ==
    CASE failure = "interrupt" -> "experiment interrupted by user"
      [] failure = "full" -> "buffer overrun error during stimulus playback"
      [] OTHER -> "unhandled exception during stimulus playback"

\* the except clause: controller.message(...); the finally clause runs
\* whether the message raises or not
Handler ==
    /\ MainSend("handler", Text(FailureText, NoStimulus), "stop_recording", "stop_recording")
    /\ UNCHANGED <<args, frames, clickvars, seqvars, stim, count, failure, queuevars, streamvars>>

\* finally: controller.stop_recording(), then time.sleep(args.gap)
StopRecording ==
    /\ MainSend("stop_recording", Command("StopRecord"), "stop_acquisition", "crashed")
    /\ UNCHANGED <<args, frames, clickvars, seqvars, stim, count, failure, queuevars, streamvars>>

\* finally: controller.stop_acquisition()
StopAcquisition ==
    /\ MainSend("stop_acquisition", Command("StopAcquisition"), "done", "crashed")
    /\ UNCHANGED <<args, frames, clickvars, seqvars, stim, count, failure, queuevars, streamvars>>

\* ------------------------------------------------------------------------
\* _process, the callback the stream thread calls once per block while the
\* stream is active.

\* the callback raises: CallbackStop completes the stream, CallbackAbort
\* and every other exception abort it; finished_callback sets evt
Finish(how) ==
    /\ stream' = how
    /\ evt' = TRUE

\* status.output_underflow (CallbackAbort) or another status flag (assert)
ProcessStatus ==
    /\ stream = "active" /\ cbpc = "idle"
    /\ Finish("aborted")
    /\ UNCHANGED <<args, frames, clickvars, seqvars, mainvars, queuevars, cbpc, outdata, ctlvars>>

\* sample_queue.get_nowait() returns an item
ProcessGet ==
    /\ stream = "active" /\ cbpc = "idle"
    /\ sample_queue # <<>>
    /\ LET data == Head(sample_queue) IN
          /\ sample_queue' = Tail(sample_queue)
          /\ popped' = Append(popped, data)
          /\ UNCHANGED pushed
          /\ CASE data.kind = "None" ->
                    /\ Finish("stopped")
                    /\ UNCHANGED <<cbpc, outdata, ctlvars>>
               [] data.kind = "message" ->
                    \/ /\ SendString("callback", Text(data.verb, data.stim))
                       /\ cbpc' = "message"
                       /\ UNCHANGED <<stream, evt, outdata>>
                    \/ /\ SendRefused("callback")
                       /\ Finish("aborted")
                       /\ UNCHANGED <<cbpc, outdata>>
               [] OTHER ->
                    /\ outdata' = "data"
                    /\ UNCHANGED <<stream, evt, cbpc, ctlvars>>
    /\ UNCHANGED <<args, frames, clickvars, seqvars, mainvars>>

\* controller.message(data) reads the reply and _process returns, or the
\* read times out and the exception aborts the stream
ProcessReply ==
    /\ stream = "active" /\ cbpc = "message"
    /\ \E ret \in Replies(request["callback"]) :
          /\ RecvString("callback", ret)
          /\ IF ret = Timeout
             THEN Finish("aborted")
             ELSE UNCHANGED <<stream, evt>>
    /\ cbpc' = "idle"
    /\ UNCHANGED <<args, frames, clickvars, seqvars, mainvars, queuevars, outdata>>

\* sample_queue.get_nowait() raises queue.Empty and the handler runs
\* `outdata[:] = b'\x00'`: one byte assigned to the whole buffer, which holds
\* block_size * channels * 4 bytes. A buffer cannot change its length, the
\* slice assignment raises ValueError (the block branch two lines above pads
\* with b'\x00' * (len(outdata) - len(data)) for that reason), nothing is
\* written, and the exception leaves _process and aborts the stream.
ProcessEmpty ==
    /\ stream = "active" /\ cbpc = "idle"
    /\ sample_queue = <<>>
    /\ Finish("aborted")
    /\ UNCHANGED <<args, frames, clickvars, seqvars, mainvars, queuevars, cbpc, outdata, ctlvars>>

\* ------------------------------------------------------------------------
Next ==
    \/ StartAcquisition
    \/ Prebuffer
    \/ PrebufferBlock
    \/ StartRecording
    \/ MetadataMessage
    \/ OpenStream
    \/ EnterStream
    \/ LoopBlock
    \/ PutStop
    \/ PutGap
    \/ PutTimeout
    \/ NextStimulus
    \/ PutStart
    \/ PutEnd
    \/ WaitFinished
    \/ Interrupt
    \/ ReadError
    \/ ExitStream
    \/ Handler
    \/ StopRecording
    \/ StopAcquisition
    \/ ProcessStatus
    \/ ProcessGet
    \/ ProcessReply
    \/ ProcessEmpty

\* A run of main: a presentation list of at most MaxPlayed stimuli, read
\* from files of one length; a looping run is followed until it has played
\* MaxPlayed stimuli.
InitMain ==
    /\ Init
    /\ click = NoClick
    /\ samplerate = 1
    /\ args.stimfiles * args.repeats <= MaxPlayed
    /\ \A f, g \in DOMAIN frames : frames[f] = frames[g]

Spec == InitMain /\ [][Next]_vars

\* ------------------------------------------------------------------------
\* A run without failures, fairly scheduled.  No interrupt and no read error
\* are raised, the stream reports no underflow, and a put with a timeout
\* expires only once the stream has stopped taking items (while the callback
\* runs it takes an item within the timeout).

\* queue.Full from a timed put, the stream no longer active
PutExpires ==
    /\ stream # "active"
    /\ PutTimeout

\* the steps of the main thread
Feeder ==
    \/ StartAcquisition
    \/ Prebuffer
    \/ PrebufferBlock
    \/ StartRecording
    \/ MetadataMessage
    \/ OpenStream
    \/ EnterStream
    \/ LoopBlock
    \/ PutStop
    \/ PutGap
    \/ PutExpires
    \/ NextStimulus
    \/ PutStart
    \/ PutEnd
    \/ WaitFinished
    \/ ExitStream
    \/ Handler
    \/ StopRecording
    \/ StopAcquisition

\* the calls of _process by the stream thread
Callback ==
    \/ ProcessGet
    \/ ProcessReply
    \/ ProcessEmpty

NextFair == Feeder \/ Callback

InitFair ==
    /\ InitMain
    /\ ~args.loop

\* the main thread runs while it can, and the device calls _process, one
\* block after the other, while the stream is active
SpecFair ==
    /\ InitFair
    /\ [][NextFair]_vars
    /\ WF_vars(Feeder)
    /\ WF_vars(Callback)

\* ------------------------------------------------------------------------
\* The sequencer on its own: iter(stim_queue), then next() again and again,
\* with reads of the returned stimulus in between.
SeqIter ==
    /\ ~stimiter
    /\ \E l \in IterOutcomes : stimlist' = l
    /\ index' = 0
    /\ stimiter' = TRUE
    /\ UNCHANGED <<args, frames, clickvars, tell, left, returned, stopiter,
                   mainvars, queuevars, streamvars, ctlvars>>

SeqNext ==
    /\ stimiter
    /\ Len(returned) < MaxNext
    /\ \E o \in NextOutcomes(stimlist, index, args.loop) :
          IF o.stop
          THEN /\ stopiter' = TRUE
               /\ UNCHANGED <<stimlist, index, tell, left, returned, stim>>
          ELSE /\ stimlist' = o.list
               /\ index' = o.idx
               /\ left' = tell[o.s]
               /\ tell' = Seek(o.s, 0)
               /\ returned' = Append(returned, o.s)
               /\ stim' = o.s
               /\ UNCHANGED stopiter
    /\ UNCHANGED <<args, frames, clickvars, stimiter, pc, count, failure,
                   queuevars, streamvars, ctlvars>>

SeqRead ==
    /\ stim # NoStimulus
    /\ ReadFrames(stim) > 0
    /\ tell' = [tell EXCEPT ![stim] = @ + ReadFrames(stim)]
    /\ UNCHANGED <<args, frames, clickvars, stimiter, stimlist, index, left, returned, stopiter,
                   mainvars, queuevars, streamvars, ctlvars>>

NextSeq == SeqIter \/ SeqNext \/ SeqRead

\* The sequencer takes no part of the command line but stimfiles, repeats,
\* shuffle and loop; every file has several blocks, so that a stimulus can
\* be left at the start, in the middle and at the end of its file.
InitSeq ==
    /\ Init
    /\ click = NoClick
    /\ samplerate = 1
    /\ args.buffer_size = 1
    /\ args.gap_frames = 0
    /\ \A f \in DOMAIN frames : frames[f] = MaxFrames

SpecSeq == InitSeq /\ [][NextSeq]_vars

\* ------------------------------------------------------------------------
\* Properties of the playback pipeline, under Spec

\* the lifecycle requests, in the order of the session
\* Idle -> Acquiring -> Recording -> Idle
LifecycleOrder == <<"StartAcquisition", "StartRecord", "StopRecord", "StopAcquisition">>

\* the commands sent on the socket so far, and the lifecycle requests among them
SentCommands == [i \in DOMAIN sent |-> sent[i][2].cmd]

LifecycleSent == SelectSeq(SentCommands, LAMBDA c : c \in Range(LifecycleOrder))

SentBy(c) == {i \in DOMAIN sent : sent[i][1] = c}

Terminated == pc \in {"done", "crashed"}

\* C1: once the output stream has been opened, a run of main that ends has
\* sent stop_recording and after it stop_acquisition, each exactly once.
C1_CleanupAlwaysSent ==
    (Terminated /\ stream # "none") =>
        /\ Occurrences(SentCommands, "StopRecord") = 1
        /\ Occurrences(SentCommands, "StopAcquisition") = 1
        /\ \A i, j \in DOMAIN sent :
              (SentCommands[i] = "StopRecord" /\ SentCommands[j] = "StopAcquisition") => i < j

\* C2: the lifecycle requests sent are a prefix of start_acquisition,
\* start_recording, stop_recording, stop_acquisition, and each is sent only
\* after the reply to the one before it matched the expected string.
C2_LifecycleOrder ==
    /\ IsPrefix(LifecycleSent, LifecycleOrder)
    /\ \A i \in 2..Len(LifecycleSent) : LifecycleSent[i - 1] \in validated

C2_Witness ==
    /\ pc = "done"
    /\ LifecycleSent = LifecycleOrder
    /\ SentBy("callback") # {}

\* C3: the main thread and the callback are never both between the send and
\* the receive of a request.
C3_OneRequestInFlight ==
    ~(request["main"] # NoRequest /\ request["callback"] # NoRequest)

C3_Witness ==
    /\ pc = "handler"
    /\ request["main"] # NoRequest
    /\ SentBy("callback") # {}
    /\ popped # pushed

\* the positions at which the main thread puts into sample_queue
PutSites == {"loop", "put_stop", "gap", "put_start", "put_end"}

\* C4: when the stream has stopped or aborted and the queue is full, a put
\* the main thread is blocked in is one that expires by timeout.
C4_EveryPutExpires ==
    (stream \in {"stopped", "aborted"} /\ pc \in PutSites /\ Len(sample_queue) > args.buffer_size)
        => pc \in TimedPuts

\* C5 as claimed: after a user interrupt, stop_recording is sent only once
\* the End sentinel has been pushed and the stream has completed.
C5_InterruptPushesEnd ==
    (failure = "interrupt" /\ Occurrences(SentCommands, "StopRecord") > 0) =>
        /\ End \in Range(pushed)
        /\ stream = "closed"

\* C5 as amended: from a user interrupt on, nothing more is put into
\* sample_queue (no End sentinel is added), and the main thread sends its
\* message and the stop requests only when the stream has been closed.
C5_InterruptClosesStream ==
    [][failure' = "interrupt" =>
          /\ pushed' = pushed
          /\ (Len(sent') > Len(sent) /\ sent'[Len(sent')][1] = "main") => stream = "closed"]_vars

C5_Witness ==
    /\ failure = "interrupt"
    /\ pc = "done"
    /\ End \notin Range(pushed)
    /\ sample_queue # <<>>

\* C6: what the callback has got, followed by what is queued, is what was
\* put, in the order it was put; the queue never holds more than
\* buffer_size + 1 items.
C6_FifoLossless ==
    /\ pushed = popped \o sample_queue
    /\ Len(sample_queue) <= args.buffer_size + 1

C6_Witness ==
    /\ Len(sample_queue) = args.buffer_size + 1
    /\ Len(popped) >= 2
    /\ pc \in InStream

\* The shape of a sequence of items: blocks of a stimulus are known by the
\* stimulus alone, and a run of blocks of one stimulus counts as one.
Tag(item) == IF item.kind = "block" /\ item.stim # NoStimulus THEN Block(item.stim, 0) ELSE item

RECURSIVE Squash(_)
Squash(s) ==
    IF Len(s) <= 1 THEN s
    ELSE IF s[1] = s[2] /\ s[1].kind = "block" /\ s[1].stim # NoStimulus
         THEN Squash(Tail(s))
         ELSE <<s[1]>> \o Squash(Tail(s))

Shape(s) == Squash([i \in DOMAIN s |-> Tag(s[i])])

RECURSIVE FramesOf(_, _)
FramesOf(s, f) ==
    IF s = <<>> THEN 0
    ELSE (IF Head(s).kind = "block" /\ Head(s).stim = f THEN Head(s).frames ELSE 0)
         + FramesOf(Tail(s), f)

\* the silence of one gap: the least number of blocks that cover gap_frames
GapSilence ==
    LET n == CHOOSE k \in 0..args.gap_frames :
                 k * BlockSize >= args.gap_frames /\ (k - 1) * BlockSize < args.gap_frames
    IN  [i \in 1..n |-> Silence]

Played(f) == <<Message("start", f), Block(f, 0), Message("stop", f)>>

TwoFiles ==
    /\ args.stimfiles = 2 /\ args.repeats = 1
    /\ ~args.shuffle /\ ~args.loop
    /\ args.gap_frames > 0

EndPopped == popped # <<>> /\ popped[Len(popped)] = End

\* C7 as claimed: two files, repeats 1, no shuffle, no loop, a gap: the
\* callback gets start 1, the blocks of file 1, stop 1, the gap silence,
\* start 2, the blocks of file 2, stop 2 and End, and nothing else.
C7_EndRightAfterLastStop ==
    (TwoFiles /\ EndPopped) =>
        Shape(popped) = Played(1) \o GapSilence \o Played(2) \o <<End>>

ExpectedTwoFiles == Played(1) \o GapSilence \o Played(2) \o GapSilence \o <<End>>

\* C7 as amended: the gap silence follows the stop message of file 2 as
\* well, before End; every file is delivered whole.
C7_GapAfterEveryStimulus ==
    TwoFiles =>
        /\ IsPrefix(Shape(popped), ExpectedTwoFiles)
        /\ EndPopped =>
              /\ Shape(popped) = ExpectedTwoFiles
              /\ \A f \in 1..2 : FramesOf(popped, f) = frames[f]

C7_Witness ==
    /\ TwoFiles
    /\ EndPopped
    /\ pc = "done"
    /\ frames[1] > BlockSize

\* ------------------------------------------------------------------------
\* Properties of the sequencer, under SpecSeq

\* the length of one cycle of the presentation list
CycleLen == args.stimfiles * args.repeats

\* the positions of the presentation list stimulus f occupies when every
\* stimulus is repeated contiguously, in command-line order
Slots(f) == ((f - 1) * args.repeats + 1)..(f * args.repeats)

\* the c-th cycle (c = 0, 1, ...) of the stimuli returned so far
Cycle(c) == SubSeq(returned, c * CycleLen + 1, (c + 1) * CycleLen)

CompleteCycles == Len(returned) \div CycleLen

\* C8: without shuffle the presentation list built by iter() has length N*R
\* and holds the files in command-line order, each repeated R times
\* contiguously; a non-looping iteration returns exactly this list, in this
\* order, and only then raises StopIteration.
C8_ContiguousRepeats ==
    (stimiter /\ ~args.shuffle) =>
        /\ Len(returned) <= CycleLen =>
              /\ Len(stimlist) = CycleLen
              /\ \A f \in 1..args.stimfiles : {i \in DOMAIN stimlist : stimlist[i] = f} = Slots(f)
        /\ ~args.loop =>
              /\ Len(returned) <= CycleLen
              /\ \A i \in DOMAIN returned : i \in Slots(returned[i])
              /\ stopiter => Len(returned) = CycleLen

C8_Witness ==
    /\ ~args.shuffle /\ ~args.loop
    /\ args.stimfiles = 2 /\ args.repeats = 2
    /\ stopiter
    /\ returned = <<1, 1, 2, 2>>

\* C9: a looping queue without shuffle returns the stimuli of every later
\* cycle in the order of the first cycle.
C9_SameOrderEveryCycle ==
    (args.loop /\ ~args.shuffle) =>
        \A i \in DOMAIN returned : returned[i] = returned[((i - 1) % CycleLen) + 1]

\* C10: a looping queue never raises StopIteration, and every complete cycle
\* of N*R returned stimuli holds each of the N stimuli exactly R times.
C10_LoopKeepsMultiset ==
    args.loop =>
        /\ ~stopiter
        /\ \A c \in 0..(CompleteCycles - 1) : \A f \in 1..args.stimfiles :
              Occurrences(Cycle(c), f) = args.repeats

C10_Witness ==
    /\ args.loop /\ args.shuffle
    /\ args.stimfiles = 2 /\ args.repeats = 2
    /\ CompleteCycles = 2
    /\ Cycle(0) # Cycle(1)

\* ------------------------------------------------------------------------
\* One mono Stimulus with a click on its own: read and seek(0) in any order.

\* Stimulus.read(block_size) of file 1
StimulusRead ==
    /\ sync' = IF click = NoClick THEN NoSync ELSE ReadSync(1)
    /\ tell' = [tell EXCEPT ![1] = @ + ReadFrames(1)]
    /\ UNCHANGED <<args, frames, click, samplerate, stimiter, stimlist, index, left,
                   returned, stopiter, mainvars, queuevars, streamvars, ctlvars>>

\* Stimulus.seek(0) of file 1
StimulusSeek ==
    /\ tell' = Seek(1, 0)
    /\ UNCHANGED <<args, frames, clickvars, stimiter, stimlist, index, left,
                   returned, stopiter, mainvars, queuevars, streamvars, ctlvars>>

NextClick == StimulusRead \/ StimulusSeek

\* one file, of any length and sample rate, with any --click argument
InitClick ==
    /\ Init
    /\ args = [stimfiles |-> 1, repeats |-> 1, shuffle |-> FALSE, loop |-> FALSE,
               buffer_size |-> 1, gap_frames |-> 0]

SpecClick == InitClick /\ [][NextClick]_vars

\* ------------------------------------------------------------------------
\* Properties of the sync channel, under SpecClick.

\* round(d * samplerate) for the --click argument d
RoundedClickFrames == (2 * click * samplerate + 1000) \div 2000

\* C15: with a click of duration d, the first read after a rewind has
\* round(d * samplerate) leading 1.0 samples in its sync channel and zeros
\* after them; every later read before the next rewind has none.
C15_ClickLength ==
    [][(StimulusRead /\ click # NoClick) =>
          /\ sync'.len = ReadFrames(1)
          /\ sync'.ones = IF tell[1] = 0 THEN RoundedClickFrames ELSE 0]_vars

\* C11: every stimulus next() returns is at read position 0 when it is
\* returned, wherever an earlier presentation left it.
C11_ReturnedAtStart ==
    [][Len(returned') > Len(returned) => tell'[returned'[Len(returned')]] = 0]_vars

\* the stimulus returned last was returned before, had been read to the end
\* of its file since, and is at the start again
C11_Witness ==
    /\ Len(returned) >= 2
    /\ stim = returned[Len(returned)]
    /\ left = frames[stim]
    /\ left > 0
    /\ tell[stim] = 0

\* ------------------------------------------------------------------------
\* Properties of the callback, under Spec.

\* C12: while the callback forwards a control message it popped to
\* controller.message, the output buffer of that cycle is all zeros, whatever
\* it held before.
C12_MessageCycleSilent ==
    cbpc = "message" =>
        /\ popped[Len(popped)].kind = "message"
        /\ request["callback"] = Text(popped[Len(popped)].verb, popped[Len(popped)].stim)
        /\ outdata = "zeros"

\* C13: a callback that finds the queue empty returns at once with an
\* all-zero block written, raises nothing (the stream stays active) and
\* sends nothing to the controller.
C13_EmptyQueueSilence ==
    [][ProcessEmpty =>
          /\ outdata' = "zeros"
          /\ stream' = "active"
          /\ cbpc' = "idle"
          /\ sent' = sent]_vars

\* ------------------------------------------------------------------------
\* Properties of the shutdown, under Spec.

\* C14: cleanup is best-effort: a run in which stop_recording was sent and
\* failed (its reply was not the expected one, or never came) has still sent
\* stop_acquisition, and no exception has ended main.
C14_CleanupBestEffort ==
    (Terminated /\ "StopRecord" \in Range(SentCommands) /\ "StopRecord" \notin validated) =>
        /\ "StopAcquisition" \in Range(SentCommands)
        /\ pc = "done"

\* C20: a run in which start_acquisition succeeded and start_recording
\* failed has sent stop_acquisition before it ends.
C20_AcquisitionStoppedAfterFailedStart ==
    (/\ Terminated
     /\ "StartAcquisition" \in validated
     /\ "StartRecord" \in Range(SentCommands)
     /\ "StartRecord" \notin validated) =>
        "StopAcquisition" \in Range(SentCommands)

\* ------------------------------------------------------------------------
\* Properties of the feeder, under Spec.

\* the control messages put into the queue so far, in order
MessagesPushed == SelectSeq(pushed, LAMBDA item : item.kind = "message")

\* C16: the control messages pushed are start r1, stop r1, start r2, stop
\* r2, ... for the stimuli r1, r2, ... in the order next() returned them, one
\* stop for each; End is pushed at most once, after the stop of the last
\* stimulus, and nothing is pushed after it.
C16_StartStopAlternate ==
    /\ Len(MessagesPushed) <= 2 * Len(returned)
    /\ Len(MessagesPushed) >= 2 * Len(returned) - 2
    /\ \A i \in DOMAIN MessagesPushed :
          /\ MessagesPushed[i].verb = IF i % 2 = 1 THEN "start" ELSE "stop"
          /\ MessagesPushed[i].stim = returned[(i + 1) \div 2]
    /\ Occurrences(pushed, End) <= 1
    /\ Occurrences(pushed, End) = 1 =>
          /\ pushed[Len(pushed)] = End
          /\ Len(MessagesPushed) = 2 * Len(returned)

\* two stimuli of exactly one block each, fewer blocks than the pre-fill
\* takes, have been fed to the end
C16_Witness ==
    /\ Len(returned) = 2
    /\ \A f \in DOMAIN frames : frames[f] = BlockSize
    /\ args.buffer_size = 2
    /\ Len(MessagesPushed) = 4
    /\ pushed[Len(pushed)] = End

\* main is in the pre-fill, or has just left it
Prefilling == pc \in {"prebuffer_block", "start_recording"} /\ sent[Len(sent)][2].cmd = "StartAcquisition"

\* put_nowait has raised queue.Full: main ended between start_acquisition
\* and start_recording
PrefillFailed ==
    /\ pc = "crashed"
    /\ "StartAcquisition" \in validated
    /\ "StartRecord" \notin Range(SentCommands)

\* C18: the pre-fill never fails with Full: it pushes the start message and
\* then at most buffer_size audio blocks of the first stimulus, goes on only
\* after full blocks, and leaves at most buffer_size + 1 items in the queue.
C18_PrefillFits ==
    /\ ~PrefillFailed
    /\ Prefilling =>
          /\ sample_queue = pushed
          /\ Len(pushed) <= args.buffer_size + 1
          /\ pushed[1].kind = "message" /\ pushed[1].verb = "start" /\ pushed[1].stim = stim
          /\ \A i \in 2..Len(pushed) : pushed[i].kind = "block" /\ pushed[i].stim = stim
          /\ \A i \in 2..(Len(pushed) - 1) : pushed[i].frames = BlockSize
          /\ (pc = "prebuffer_block" /\ Len(pushed) >= 2) => pushed[Len(pushed)].frames = BlockSize
          /\ (pc = "prebuffer_block" /\ count < args.buffer_size) => Len(sample_queue) <= args.buffer_size

\* the pre-fill has ended with the queue filled to its capacity
C18_Witness ==
    /\ pc = "start_recording"
    /\ request["main"] = NoRequest
    /\ args.buffer_size = 2
    /\ Len(sample_queue) = args.buffer_size + 1
    /\ pushed[Len(pushed)].frames < BlockSize

\* ------------------------------------------------------------------------
\* Properties of the messages sent to the controller, under Spec.

\* the failure messages of main's except clauses
FailureTexts ==
    {"experiment interrupted by user",
     "buffer overrun error during stimulus playback",
     "unhandled exception during stimulus playback"}

\* C19: every message request (the start and stop messages the callback
\* forwards, the failure messages of main's except clauses) is sent while
\* the session is recording: the reply to StartRecord has been validated and
\* StopRecord has not been sent.  No message follows StopRecord.
C19_MessagesWhileRecording ==
    \A i \in DOMAIN sent :
        SentCommands[i] = "message" =>
            /\ "StartRecord" \in validated
            /\ \E j \in 1..(i - 1) : SentCommands[j] = "StartRecord"
            /\ \A j \in 1..(i - 1) : SentCommands[j] # "StopRecord"

\* the callback has forwarded a message, main has sent a failure message,
\* and the run has ended with the recording stopped
C19_Witness ==
    /\ pc = "done"
    /\ failure # "none"
    /\ \E i \in SentBy("callback") : sent[i][2].verb \in {"start", "stop"}
    /\ \E i \in SentBy("main") : sent[i][2].verb \in FailureTexts
    /\ SentCommands[Len(sent) - 1] = "StopRecord"

\* ------------------------------------------------------------------------
\* Termination, under SpecFair.

\* a controller error (a reply that timed out, a lifecycle reply that did not
\* match), or a device that did not open or start
Failed ==
    \/ stale
    \/ failure = "exception"
    \/ pc = "crashed"

\* End was pushed and popped, the stream has finished, and main has sent
\* stop_recording and stop_acquisition
PlayedOut ==
    /\ EndPopped
    /\ evt
    /\ "StopRecord" \in Range(SentCommands)
    /\ "StopAcquisition" \in Range(SentCommands)

\* C17: with loop off, a run in which nothing fails comes to the point
\* where End has been pushed and popped, the stream has stopped, the wait for
\* it has returned and stop_recording and stop_acquisition have been sent.
C17_RunsToCompletion == <>(Failed \/ PlayedOut)

====
